---------------------------- MODULE Spec2Model ----------------------------
(***************************************************************************)
(* Model of the Sasha AI -> Bitrix24 webhook relay.                        *)
(*                                                                         *)
(* The repository holds three revisions of the HTTP server                 *)
(*   "server"  src/server.js                                               *)
(*   "partA"   src/unnamed/part_000, lines 1-347                           *)
(*   "partB"   src/unnamed/part_000, lines 349-805                         *)
(* and two revisions of the lead mapping table in src/mapping.js           *)
(*   1         lines 21-140  (COMMENTS is the multi-line call summary)     *)
(*   2         lines 273-310 (COMMENTS is call.agreements.client_facts).   *)
(* A behaviour of Spec is one process: one server revision, one mapping     *)
(* revision and one environment, fixed at start, serving requests.         *)
(* A behaviour of EngineSpec is the mapping module of src/mapping.js called *)
(* on its own, on one document and one mapping table.                      *)
(* A behaviour of DupSpec is the server receiving copies of one webhook,   *)
(* and one of LiveSpec is the server with an upstream that may stay        *)
(* silent, under the progress the network and the timers guarantee.       *)
(*                                                                         *)
(* JavaScript strings are sequences of one-character strings; messages of  *)
(* the program written in Russian are given in English.                    *)
(***************************************************************************)
EXTENDS Integers, Sequences, FiniteSets, TLC

VARIABLES
  variant,        \* the server revision that runs
  mappingRev,     \* the revision of leadMapping it requires
  env,            \* process.env: WEBHOOK_SECRET, BITRIX_WEBHOOK_URL
  pc,             \* per request: "idle", "awaiting" (in axios.post), "responded"
  input,          \* per request: route, X-Webhook-Signature header, req.body
  mapCalls,       \* per request: number of applyMapping calls
  upstream,       \* per request: the sequence of POSTs issued to Bitrix
  reply,          \* per request: what axios.post settled with
  resp,           \* per request: the sequence of responses sent
  trace,          \* per request: the stages it went through, in order
  engDoc,         \* the mapping module called on its own: the document,
  engTable,       \*   the mapping table,
  engOut          \*   and the calls made so far with what they returned

\* the state of the mapping module called on its own
engVars == <<engDoc, engTable, engOut>>

vars ==
  <<variant, mappingRev, env, pc, input, mapCalls, upstream, reply, resp, trace, engVars>>

-----------------------------------------------------------------------------
(* Bounds of the model. *)

\* number of requests the process serves, concurrently
MaxReqs == 1

Reqs == 1..MaxReqs

-----------------------------------------------------------------------------
(* JavaScript values. *)

Undefined == [t |-> "undefined"]
Null == [t |-> "null"]
Bool(b) == [t |-> "bool", v |-> b]
Num(n) == [t |-> "num", v |-> n]
Str(s) == [t |-> "str", v |-> s]
\* an array: the sequence of its elements
Arr(a) == [t |-> "arr", v |-> a]
\* an object: its own properties in insertion order, each [k |-> key, v |-> value]
Obj(ps) == [t |-> "obj", v |-> ps]

P(key, val) == [k |-> key, v |-> val]

\* ToBoolean
Truthy(x) ==
  CASE x.t = "undefined" -> FALSE
    [] x.t = "null" -> FALSE
    [] x.t = "bool" -> x.v
    [] x.t = "num" -> x.v # 0
    [] x.t = "str" -> x.v # << >>
    [] OTHER -> TRUE

HasKey(o, key) == o.t = "obj" /\ \E i \in 1..Len(o.v) : o.v[i].k = key

\* o[key] for a value that is neither null nor undefined (those throw TypeError)
Get(o, key) ==
  IF HasKey(o, key)
    THEN o.v[CHOOSE i \in 1..Len(o.v) : o.v[i].k = key].v
    ELSE IF key = "length" /\ o.t \in {"str", "arr"} THEN Num(Len(o.v))
    ELSE Undefined

\* o?.[key], and o[key] where the program has made o an object
GetOpt(o, key) == IF o.t \in {"undefined", "null"} THEN Undefined ELSE Get(o, key)

\* x || y
OrElse(x, y) == IF Truthy(x) THEN x ELSE y

\* Object.keys(x).length
NumKeys(x) ==
  CASE x.t \in {"obj", "arr", "str"} -> Len(x.v)
    [] OTHER -> 0

\* the text of a raw request body, as express.text() hands it over
Text(s) == [t |-> "text", v |-> s]

\* !x for a value that may also be a raw body text
Falsy(x) == IF x.t = "text" THEN x.v = "" ELSE ~Truthy(x)

-----------------------------------------------------------------------------
(* crypto: the HMAC, hex decoding and the constant-time comparison. *)

HexDigits == <<"0", "1", "2", "3", "4", "5", "6", "7",
               "8", "9", "a", "b", "c", "d", "e", "f">>

IsHex(c) == \E i \in 1..16 : HexDigits[i] = c

-----------------------------------------------------------------------------
(* The raw bodies and documents the requests are drawn from. *)

S(chars) == Str(chars)

Phone79 == <<"+", "7", " ", "9">>
NameAnn == <<" ", "A", "n", " ">>

\* {"contact":{"phone":"+7 9"},"call":{"agreements":{"client_name":" An "}}}
DocFull ==
  Obj(<<P("contact", Obj(<<P("phone", S(Phone79))>>)),
        P("call", Obj(<<P("agreements", Obj(<<P("client_name", S(NameAnn))>>))>>))>>)

\* {"contact":{"phone":79},"call":{}}: a phone that is not a string
DocNumPhone ==
  Obj(<<P("contact", Obj(<<P("phone", Num(79))>>)), P("call", Obj(<< >>))>>)

\* {"contact":{"phone":"+7 9"}}
DocNoCall == Obj(<<P("contact", Obj(<<P("phone", S(Phone79))>>))>>)

\* {"contact":0,"call":{}}
DocContactZero == Obj(<<P("contact", Num(0)), P("call", Obj(<< >>))>>)

DocEmpty == Obj(<< >>)

TextFull == "{\"contact\":{\"phone\":\"+7 9\"},\"call\":{\"agreements\":{\"client_name\":\" An \"}}}"
TextNumPhone == "{\"contact\":{\"phone\":79},\"call\":{}}"
TextNoCall == "{\"contact\":{\"phone\":\"+7 9\"}}"
TextContactZero == "{\"contact\":0,\"call\":{}}"
TextEmptyObj == "{}"
TextNull == "null"
TextBad == "{bad"

\* the raw texts of the model, in a fixed order
RawTexts ==
  <<TextFull, TextNumPhone, TextNoCall, TextContactZero, TextEmptyObj, TextNull, TextBad>>

TextCode(s) == CHOOSE i \in 1..Len(RawTexts) : RawTexts[i] = s

\* JSON.parse(text): [ok |-> TRUE, val |-> value], or [ok |-> FALSE] for a SyntaxError.
\* A body that is not a string is converted with String() first, and
\* "[object Object]" is no JSON text.
JSONparse(x) ==
  IF x.t # "text" THEN [ok |-> FALSE]
  ELSE CASE x.v = TextFull -> [ok |-> TRUE, val |-> DocFull]
         [] x.v = TextNumPhone -> [ok |-> TRUE, val |-> DocNumPhone]
         [] x.v = TextNoCall -> [ok |-> TRUE, val |-> DocNoCall]
         [] x.v = TextContactZero -> [ok |-> TRUE, val |-> DocContactZero]
         [] x.v = TextEmptyObj -> [ok |-> TRUE, val |-> DocEmpty]
         [] x.v = TextNull -> [ok |-> TRUE, val |-> Null]
         [] OTHER -> [ok |-> FALSE]

Secrets == <<<<"k">>, <<"q">>>>

SecretCode(s) == CHOOSE i \in 1..Len(Secrets) : Secrets[i] = s

\* crypto.createHmac('sha256', secret).update(payload).digest('hex'), at a width
\* of one byte: a keyed digest that differs whenever the key or the text differs
HmacHex(secret, payload) ==
  <<HexDigits[SecretCode(secret) + 1], HexDigits[TextCode(payload.v) + 1]>>

RECURSIVE BufferFromHex(_)
\* Buffer.from(s, 'hex'): the bytes of the leading pairs of hex digits; decoding
\* stops at the first pair that is not hex, and a trailing odd digit is dropped
BufferFromHex(s) ==
  IF Len(s) >= 2 /\ IsHex(s[1]) /\ IsHex(s[2])
    THEN <<(<<s[1], s[2]>>)>> \o BufferFromHex(SubSeq(s, 3, Len(s)))
    ELSE << >>

\* crypto.timingSafeEqual(a, b): throws RangeError when the lengths differ
timingSafeEqual(a, b) ==
  IF Len(a) # Len(b) THEN "throw" ELSE IF a = b THEN "true" ELSE "false"

\* verifyWebhookSignature(payload, signature, secret): "true", "false" or "throw"
verifyWebhookSignature(payload, signature, secret) ==
  LET computed == HmacHex(secret, payload)
  IN  timingSafeEqual(BufferFromHex(computed), BufferFromHex(signature))

-----------------------------------------------------------------------------
(* mapping.js: strings. *)

Digits == <<"0", "1", "2", "3", "4", "5", "6", "7", "8", "9">>

IsDigit(c) == \E i \in 1..10 : Digits[i] = c

IsSpace(c) == c \in {" ", "\t", "\n"}

RECURSIVE StripNonDigits(_)
\* s.replace(/\D/g, '')
StripNonDigits(s) ==
  IF s = << >> THEN << >>
  ELSE IF IsDigit(Head(s)) THEN <<Head(s)>> \o StripNonDigits(Tail(s))
  ELSE StripNonDigits(Tail(s))

RECURSIVE TrimStart(_)
TrimStart(s) ==
  IF s # << >> /\ IsSpace(Head(s)) THEN TrimStart(Tail(s)) ELSE s

RECURSIVE TrimEnd(_)
TrimEnd(s) ==
  IF s # << >> /\ IsSpace(s[Len(s)]) THEN TrimEnd(SubSeq(s, 1, Len(s) - 1)) ELSE s

\* a trim that would leave the string as it is
NoTrim(s) == s

\* s.trim()
Trim(s) == TrimEnd(TrimStart(s))

RECURSIVE NatToChars(_)
\* String(n) for a natural number
NatToChars(n) ==
  IF n < 10 THEN <<Digits[n + 1]>>
  ELSE NatToChars(n \div 10) \o <<Digits[(n % 10) + 1]>>

\* String(n).padStart(2, '0')
Pad2(n) == IF n < 10 THEN <<"0">> \o NatToChars(n) ELSE NatToChars(n)

RECURSIVE Concat(_)
\* the concatenation of the pieces of a template literal
Concat(pieces) ==
  IF pieces = << >> THEN << >> ELSE Head(pieces) \o Concat(Tail(pieces))

-----------------------------------------------------------------------------
(* mapping.js: the path resolver. *)

\* a source is the list of the segments of its dotted path: path.split('.');
\* the empty path is << >>
SrcStatic == <<"static">>
SrcMultiple == <<"multiple">>

RECURSIVE ReducePath(_, _)
\* path.split('.').reduce((current, key) => ..., obj)
ReducePath(current, keys) ==
  IF keys = << >> THEN current
  ELSE ReducePath(
         IF Truthy(current) /\ Get(current, Head(keys)) # Undefined
           THEN Get(current, Head(keys))
           ELSE Null,
         Tail(keys))

getValueByPath(obj, path) ==
  IF path = << >> \/ path = SrcStatic \/ path = SrcMultiple
    THEN Null
    ELSE ReducePath(obj, path)

-----------------------------------------------------------------------------
(* mapping.js: the transforms of leadMapping.  A transform returns Ret(v) or   *)
(* throws.                                                                     *)

Ret(val) == [ok |-> TRUE, val |-> val]
Throw == [ok |-> FALSE]

\* the placeholder of an absent sub-field, the em dash
Dash == <<"--">>

RECURSIVE JSONstringify(_)
RECURSIVE StringifyProps(_)
StringifyProps(ps) ==
  IF ps = << >> THEN << >>
  ELSE Concat(<<<<"\"", Head(ps).k, "\"", ":">>, JSONstringify(Head(ps).v),
                IF Len(ps) > 1 THEN <<",">> ELSE << >>, StringifyProps(Tail(ps))>>)

RECURSIVE StringifyElems(_)
StringifyElems(a) ==
  IF a = << >> THEN << >>
  ELSE Concat(<<JSONstringify(Head(a)), IF Len(a) > 1 THEN <<",">> ELSE << >>,
                StringifyElems(Tail(a))>>)

\* JSON.stringify(x) of a value that came out of JSON.parse
JSONstringify(x) ==
  CASE x.t = "null" -> <<"null">>
    [] x.t = "bool" -> IF x.v THEN <<"true">> ELSE <<"false">>
    [] x.t = "num" -> NatToChars(x.v)
    [] x.t = "str" -> Concat(<<<<"\"">>, x.v, <<"\"">>>>)
    [] x.t = "arr" -> Concat(<<<<"[">>, StringifyElems(x.v), <<"]">>>>)
    [] x.t = "obj" -> Concat(<<<<"{">>, StringifyProps(x.v), <<"}">>>>)

RECURSIVE ToChars(_)
RECURSIVE Join(_, _)
\* a.join(sep): null and undefined elements give the empty string
Join(a, sep) ==
  IF a = << >> THEN << >>
  ELSE Concat(<<IF Head(a).t \in {"null", "undefined"} THEN << >> ELSE ToChars(Head(a)),
                IF Len(a) > 1 THEN sep ELSE << >>, Join(Tail(a), sep)>>)

\* String(x), as `${x}` in a template literal applies it
ToChars(x) ==
  CASE x.t = "str" -> x.v
    [] x.t = "num" -> NatToChars(x.v)
    [] x.t = "bool" -> IF x.v THEN <<"true">> ELSE <<"false">>
    [] x.t = "arr" -> Join(x.v, <<",">>)
    [] x.t = "null" -> <<"null">>
    [] x.t = "undefined" -> <<"undefined">>
    [] OTHER -> <<"[object Object]">>

\* x || '--', inside the template
OrDash(x) == IF Truthy(x) THEN ToChars(x) ELSE Dash

\* formatDuration(ms): milliseconds as MM:SS; the durations of the model's
\* documents are natural numbers, anything else divides to NaN
formatDuration(ms) ==
  IF ms.t \in {"null", "undefined"} THEN Dash
  ELSE IF ms.t # "num" THEN <<"NaN", ":", "NaN">>
  ELSE Concat(<<Pad2((ms.v \div 1000) \div 60), <<":">>, Pad2((ms.v \div 1000) % 60)>>)

\* A date is [y, mo, d, h, mi] in UTC.  The date strings new Date() understands
\* in the model are YYYY-MM-DDTHH:MMZ, one character per element.
IsDateText(s) ==
  /\ Len(s) = 17
  /\ \A i \in {1, 2, 3, 4, 6, 7, 9, 10, 12, 13, 15, 16} : IsDigit(s[i])
  /\ s[5] = "-" /\ s[8] = "-" /\ s[11] = "T" /\ s[14] = ":" /\ s[17] = "Z"

DigitVal(c) == (CHOOSE i \in 1..10 : Digits[i] = c) - 1

Num2(s, i) == 10 * DigitVal(s[i]) + DigitVal(s[i + 1])

IsLeap(y) == (y % 4 = 0 /\ y % 100 # 0) \/ y % 400 = 0

DaysIn(mo, y) ==
  CASE mo \in {4, 6, 9, 11} -> 30
    [] mo = 2 -> IF IsLeap(y) THEN 29 ELSE 28
    [] OTHER -> 31

\* the date of these UTC fields, or an invalid one (its getTime() is NaN)
MakeDate(y, mo, d, h, mi) ==
  IF mo \in 1..12 /\ d \in 1..DaysIn(mo, y) /\ h \in 0..23 /\ mi \in 0..59
    THEN [valid |-> TRUE, y |-> y, mo |-> mo, d |-> d, h |-> h, mi |-> mi]
    ELSE [valid |-> FALSE]

\* new Date(s)
DateParse(s) ==
  IF ~IsDateText(s) THEN [valid |-> FALSE]
  ELSE MakeDate(100 * Num2(s, 1) + Num2(s, 3), Num2(s, 6), Num2(s, 9),
                Num2(s, 12), Num2(s, 15))

\* new Date(d.getTime() + 3 * 60 * 60 * 1000)
PlusThreeHours(dt) ==
  IF dt.h + 3 < 24 THEN [dt EXCEPT !.h = dt.h + 3]
  ELSE IF dt.d < DaysIn(dt.mo, dt.y) THEN [dt EXCEPT !.h = dt.h + 3 - 24, !.d = dt.d + 1]
  ELSE IF dt.mo < 12 THEN [dt EXCEPT !.h = dt.h + 3 - 24, !.d = 1, !.mo = dt.mo + 1]
  ELSE [dt EXCEPT !.h = dt.h + 3 - 24, !.d = 1, !.mo = 1, !.y = dt.y + 1]

\* `${day}.${month}.${year} ${hours}:${min} po MSK`
RenderDate(msk) ==
  Concat(<<Pad2(msk.d), <<".">>, Pad2(msk.mo), <<".">>, NatToChars(msk.y),
           <<" ">>, Pad2(msk.h), <<":">>, Pad2(msk.mi), <<" po MSK">>>>)

\* isNaN(d.getTime()) ? fallback : the date d rendered in UTC+3
RenderMsk(d, fallback) ==
  IF ~d.valid THEN fallback ELSE RenderDate(PlusThreeHours(d))

\* formatDateMsk(dateStr); startedAt is a string or absent in the model's documents
formatDateMsk(dateStr) ==
  IF ~Truthy(dateStr) THEN Dash
  ELSE IF dateStr.t # "str" THEN Dash
  ELSE RenderMsk(DateParse(dateStr.v), Dash)

\* timeStr.includes('Z') ? timeStr : timeStr.replace(' ', 'T') + 'Z'
NormalizeTime(s) ==
  IF \E i \in 1..Len(s) : s[i] = "Z" THEN s
  ELSE LET sp == {i \in 1..Len(s) : s[i] = " "}
       IN  (IF sp = {} THEN s
            ELSE LET i == CHOOSE j \in sp : \A k \in sp : j <= k
                 IN  [s EXCEPT ![i] = "T"]) \o <<"Z">>

\* formatAgreementsTime(timeStr); a truthy value that is not a string has no
\* includes(), the TypeError is caught and the value itself returned
formatAgreementsTime(timeStr) ==
  IF ~Truthy(timeStr) THEN Dash
  ELSE IF timeStr.t # "str" THEN ToChars(timeStr)
  ELSE RenderMsk(DateParse(NormalizeTime(timeStr.v)), timeStr.v)

\* contact.phone ? `+${contact.phone.replace(/\D/g, '')}` : '--'
SummaryPhone(rawPhone) ==
  IF Truthy(rawPhone) THEN <<"+">> \o StripNonDigits(rawPhone.v) ELSE Dash

\* contact.tags && contact.tags.length > 0
TagsPresent(tagsV) ==
  Truthy(tagsV) /\ Get(tagsV, "length").t = "num" /\ Get(tagsV, "length").v > 0

\* (contact.tags && contact.tags.length > 0) ? contact.tags.join(', ') : '--'
SummaryTags(tagsV) == IF TagsPresent(tagsV) THEN Join(tagsV.v, <<",", " ">>) ELSE Dash

\* hasAdditionalFields ? JSON.stringify(contact.additionalFields) : '--'
SummaryExtra(extra) ==
  IF Truthy(extra) /\ extra.t \in {"obj", "arr"} /\ NumKeys(extra) > 0
    THEN JSONstringify(extra)
    ELSE Dash

\* whether building the summary throws: replace() on a phone that is no string,
\* join() on tags that are no array
SummaryThrows(contact) ==
  \/ Truthy(Get(contact, "phone")) /\ Get(contact, "phone").t # "str"
  \/ TagsPresent(Get(contact, "tags")) /\ Get(contact, "tags").t # "arr"

\* the template literal of the summary, mapping.js lines 95-113
SummaryText(call, contact, agreements) ==
  Concat(<<
    <<"Name: ">>, OrDash(Get(agreements, "client_name")), <<"\n">>,
    <<"Phone: ">>, SummaryPhone(Get(contact, "phone")), <<"\n">>,
    <<"Call duration: ">>, formatDuration(Get(call, "duration")), <<"\n">>,
    <<"Call started at: ">>, formatDateMsk(Get(call, "startedAt")), <<"\n">>,
    <<"Interest: ">>, Dash, <<"\n">>,
    <<"Call record: ">>, OrDash(Get(call, "recordUrl")), <<"\n", "\n">>,
    <<"Agreements: ">>, OrDash(Get(agreements, "agreements")), <<"\n">>,
    <<"Agreement time: ">>,
    formatAgreementsTime(OrElse(Get(agreements, "agreements_time_local"),
                                Get(agreements, "agreements_time"))),
    <<"\n">>,
    <<"Possible region: ">>,
    OrDash(GetOpt(Get(contact, "dadataPhoneInfo"), "region")), <<"\n">>,
    <<"Tags: ">>, SummaryTags(Get(contact, "tags")), <<"\n", "\n">>,
    <<"About the client:", "\n">>, OrDash(Get(agreements, "client_facts")),
    <<"\n", "\n">>,
    <<"Contact extra fields: ">>, SummaryExtra(Get(contact, "additionalFields")),
    <<"\n", "\n">>,
    <<"Closing message:", "\n">>, OrDash(Get(agreements, "smsText"))>>)

\* the summary of a call and a contact, with agreements = call.agreements || {}
SummaryOf(call, contact) ==
  IF SummaryThrows(contact) THEN Throw
  ELSE Ret(Str(SummaryText(call, contact, OrElse(Get(call, "agreements"), Obj(<< >>)))))

\* leadMapping.COMMENTS.transform, mapping.js lines 29-114: the call summary
CommentsSummary(value, data) ==
  IF data.t \in {"null", "undefined"} THEN Throw
  ELSE SummaryOf(OrElse(Get(data, "call"), Obj(<< >>)), OrElse(Get(data, "contact"), Obj(<< >>)))

\* leadMapping.COMMENTS.transform, mapping.js lines 281-284: the client facts
CommentsFacts(value, data) ==
  IF data.t \in {"null", "undefined"} THEN Throw
  ELSE Ret(OrElse(GetOpt(GetOpt(Get(data, "call"), "agreements"), "client_facts"), Null))

\* leadMapping.NAME.transform
NameTransform(value, data) ==
  IF ~Truthy(value) THEN Ret(Null)
  ELSE IF value.t # "str" THEN Throw
  ELSE Ret(OrElse(Str(Trim(value.v)), Null))

\* if (!phoneFormatted) return null; return [{ VALUE, VALUE_TYPE: 'WORK' }]
PhoneEntry(phoneFormatted) ==
  IF phoneFormatted = << >> THEN Ret(Null)
  ELSE Ret(Arr(<<Obj(<<P("VALUE", Str(phoneFormatted)),
                       P("VALUE_TYPE", Str(<<"W", "O", "R", "K">>))>>)>>))

\* leadMapping.PHONE.transform
PhoneTransform(value, data) ==
  IF ~Truthy(value) THEN Ret(Null)
  ELSE IF value.t # "str" THEN Throw
  ELSE PhoneEntry(StripNonDigits(value.v))

\* config.transform(rawValue, webhookData), by the name of the transform
CallTransform(name, value, data) ==
  CASE name = "COMMENTS1" -> CommentsSummary(value, data)
    [] name = "COMMENTS2" -> CommentsFacts(value, data)
    [] name = "NAME" -> NameTransform(value, data)
    [] name = "PHONE" -> PhoneTransform(value, data)

-----------------------------------------------------------------------------
(* mapping.js: the mapping tables and the mapping engine. *)

\* a field specification; value is Undefined and transform "none" when absent
Field(name, source, value, transform) ==
  [field |-> name, source |-> source, value |-> value, transform |-> transform]

StatusId == <<"U", "C", "_", "E", "5", "D", "G", "C", "8">>

\* a lead mapping whose STATUS_ID would be read from the document
leadMappingStatusFromDoc(rev) ==
  <<Field("STATUS_ID", <<"status">>, Undefined, "none"),
    Field("COMMENTS", SrcMultiple, Undefined,
          IF rev = 1 THEN "COMMENTS1" ELSE "COMMENTS2"),
    Field("NAME", <<"call", "agreements", "client_name">>, Undefined, "NAME"),
    Field("PHONE", <<"contact", "phone">>, Undefined, "PHONE")>>

\* leadMapping of revision rev, in the order of its keys
leadMapping(rev) ==
  <<Field("STATUS_ID", SrcStatic, Str(StatusId), "none"),
    Field("COMMENTS", SrcMultiple, Undefined,
          IF rev = 1 THEN "COMMENTS1" ELSE "COMMENTS2"),
    Field("NAME", <<"call", "agreements", "client_name">>, Undefined, "NAME"),
    Field("PHONE", <<"contact", "phone">>, Undefined, "PHONE")>>

dealMapping == << >>

contactMapping == << >>

\* a mapping engine that would never call a transform
ResolveIgnoringTransform(config, webhookData) ==
  IF config.source = SrcStatic THEN Ret(config.value)
  ELSE Ret(getValueByPath(webhookData, config.source))

\* a mapping engine whose static entries would prefer the document's own v
ResolveStaticFromDoc(config, webhookData) ==
  IF config.source = SrcStatic
    THEN Ret(OrElse(GetOpt(webhookData, "v"), config.value))
  ELSE IF config.transform # "none"
    THEN CallTransform(config.transform, getValueByPath(webhookData, config.source),
                       webhookData)
    ELSE Ret(getValueByPath(webhookData, config.source))

\* the value one field resolves to: Ret(value), or Throw when its transform throws
ResolveField(config, webhookData) ==
  IF config.source = SrcStatic THEN Ret(config.value)
  ELSE IF config.source = SrcMultiple
    THEN IF config.transform # "none"
           THEN CallTransform(config.transform, Null, webhookData)
           ELSE Ret(Null)
  ELSE IF config.transform # "none"
    THEN CallTransform(config.transform, getValueByPath(webhookData, config.source),
                       webhookData)
    ELSE Ret(getValueByPath(webhookData, config.source))

\* a mapping engine that would keep a value only if it is truthy
IncludedIfTruthy(value) == Truthy(value) /\ ~(value.t = "arr" /\ Len(value.v) = 0)

\* whether applyMapping keeps a resolved value
Included(value) ==
  /\ value # Null
  /\ value # Undefined
  /\ value # Str(<< >>)
  /\ ~(value.t = "arr" /\ Len(value.v) = 0)

\* result[key] = value
SetProp(o, key, value) ==
  IF HasKey(o, key)
    THEN Obj([i \in 1..Len(o.v) |-> IF o.v[i].k = key THEN P(key, value) ELSE o.v[i]])
    ELSE Obj(Append(o.v, P(key, value)))

\* the end of one turn of the loop: the field is added when its resolution r
\* did not throw and gave a value to keep
AddField(result, bitrixField, r) ==
  IF r.ok /\ Included(r.val) THEN SetProp(result, bitrixField, r.val) ELSE result

RECURSIVE MapFieldsAbort(_, _, _)
\* a mapping engine whose loop has no try/catch: the first entry that throws
\* ends applyMapping with that exception
MapFieldsAbort(result, webhookData, entries) ==
  IF entries = << >> THEN result
  ELSE IF ~ResolveField(Head(entries), webhookData).ok THEN [t |-> "thrown"]
  ELSE MapFieldsAbort(
         AddField(result, Head(entries).field, ResolveField(Head(entries), webhookData)),
         webhookData, Tail(entries))

RECURSIVE MapFields(_, _, _)
\* the loop of applyMapping over Object.entries(mapping)
MapFields(result, webhookData, entries) ==
  IF entries = << >> THEN result
  ELSE MapFields(
         AddField(result, Head(entries).field, ResolveField(Head(entries), webhookData)),
         webhookData, Tail(entries))

applyMapping(webhookData, mapping) == MapFields(Obj(<< >>), webhookData, mapping)

-----------------------------------------------------------------------------
(* The server: messages and responses.  An error message is the sequence of   *)
(* the fragments its template literal concatenates.                            *)

MsgNoSignature == "X-Webhook-Signature header is missing"
MsgNoSecret == "WEBHOOK_SECRET is not configured"
MsgEmptyBody == "Request body is empty"
MsgNoData == "No data provided. Send JSON in the request body"
MsgMissingFields == "Required fields are missing: contact or call"
MsgNoUrl == "BITRIX_WEBHOOK_URL is not set in the environment"
MsgNoFields == "No fields left after mapping to create the lead"
MsgLeadError == "Bitrix lead creation error: "
MsgBitrixReturned == "Bitrix returned an error: "
MsgNoLeadId == "Bitrix did not return the id of the created lead"
MsgInternal == "Internal server error"
MsgCreated == "Lead created in Bitrix"
MsgTestCreated == "Test lead created in Bitrix"
\* messages of the runtime and of axios
MsgSyntaxError == "Unexpected token in JSON"
MsgTypeError == "Cannot read properties of null"
MsgNetwork == "Network Error"
MsgNotFound == "getaddrinfo ENOTFOUND "
MsgTimeout == "timeout of 30000ms exceeded"
MsgStatusCode == "Request failed with status code "

\* res.status(code).send(text): a plain-text body
SendText(code, text) == [status |-> code, kind |-> "text", body |-> Str(<<text>>)]

\* res.status(code).json(obj): JSON.stringify drops the undefined properties
SendJson(code, obj) ==
  [status |-> code, kind |-> "json",
   body |-> Obj(SelectSeq(obj.v, LAMBDA p : p.v # Undefined))]

\* res.status(code).json({ success: false, error: msg })
SendFailure(code, msg) ==
  SendJson(code, Obj(<<P("success", Bool(FALSE)), P("error", Str(msg))>>))

\* the catch block of a handler: error.message || 'Internal server error'
SendCaught(msg) == SendFailure(500, IF msg = << >> THEN <<MsgInternal>> ELSE msg)

\* res.json({ success: true, message, leadId, data })
SendSuccess(message, result) ==
  SendJson(200, Obj(<<P("success", Bool(TRUE)), P("message", Str(<<message>>)),
                      P("leadId", result.leadId), P("data", result.data)>>))

-----------------------------------------------------------------------------
(* The server: createLeadInBitrix, up to and after its await of axios.post. *)

MethodPath == <<"c", "r", "m", ".", "l", "e", "a", "d", ".", "a", "d", "d">>

\* bitrixWebhookUrl.endsWith('/') ? `${url}crm.lead.add` : `${url}/crm.lead.add`
LeadAddUrl(bitrixWebhookUrl) ==
  IF bitrixWebhookUrl # << >> /\ bitrixWebhookUrl[Len(bitrixWebhookUrl)] = "/"
    THEN bitrixWebhookUrl \o MethodPath
    ELSE bitrixWebhookUrl \o <<"/">> \o MethodPath

\* createLeadInBitrix once applyMapping has returned leadFields: partA requires
\* a field, then the POST is issued
PostLead(v, bitrixWebhookUrl, leadFields) ==
  IF v = "partA" /\ (~Truthy(leadFields) \/ NumKeys(leadFields) = 0)
    THEN [kind |-> "throw", msg |-> <<MsgNoFields>>, mapped |-> TRUE]
    ELSE [kind |-> "post", mapped |-> TRUE,
          post |-> [url |-> LeadAddUrl(bitrixWebhookUrl.v),
                    data |-> Obj(<<P("fields", leadFields)>>)]]

\* a createLeadInBitrix that would map the document before it looks at the
\* base URL
CreateLeadMapFirst(v, rev, e, data) ==
  IF ~Truthy(e.BITRIX_WEBHOOK_URL)
    THEN [kind |-> "throw", msg |-> <<MsgNoUrl>>, mapped |-> TRUE]
    ELSE PostLead(v, e.BITRIX_WEBHOOK_URL, applyMapping(data, leadMapping(rev)))

\* createLeadInBitrix(data) until it suspends in axios.post or throws.
\* mapped tells whether applyMapping was called.
CreateLeadStart(v, rev, e, data) ==
  IF ~Truthy(e.BITRIX_WEBHOOK_URL)
    THEN [kind |-> "throw", msg |-> <<MsgNoUrl>>, mapped |-> FALSE]
    ELSE PostLead(v, e.BITRIX_WEBHOOK_URL, applyMapping(data, leadMapping(rev)))

\* validateStatus: the default of axios, and the one partA passes
ValidateStatus(v, status) ==
  IF v = "partA" THEN status >= 200 /\ status < 600
  ELSE status >= 200 /\ status < 300

\* a catch block that would add the URL of the failed request to the message
RethrowWithUrl(responseData, message) ==
  [kind |-> "throw",
   msg |-> Concat(<<<<MsgLeadError>>, message, <<" at ">>,
                    IF Truthy(env.BITRIX_WEBHOOK_URL)
                      THEN env.BITRIX_WEBHOOK_URL.v ELSE << >>>>)]

\* the catch block: `${error.response?.data?.error_description || error.message}`
\* behind the prefix
Rethrow(responseData, message) ==
  [kind |-> "throw",
   msg |-> <<MsgLeadError>> \o (IF Truthy(GetOpt(responseData, "error_description"))
                                  THEN ToChars(GetOpt(responseData, "error_description"))
                                  ELSE message)]

\* the try block after axios.post resolved with response data d
AfterResolve(v, d) ==
  IF d.t \in {"null", "undefined"} THEN Rethrow(Undefined, <<MsgTypeError>>)
  ELSE IF v = "partA" /\ Truthy(Get(d, "error"))
    THEN Rethrow(Undefined,
           Concat(<<<<MsgBitrixReturned>>, ToChars(Get(d, "error")), <<" - ">>,
                    IF Truthy(Get(d, "error_description"))
                      THEN ToChars(Get(d, "error_description")) ELSE << >>>>))
  ELSE IF v = "partA" /\ ~Truthy(Get(d, "result"))
    THEN Rethrow(Undefined, <<MsgNoLeadId>>)
  ELSE [kind |-> "return", leadId |-> Get(d, "result"), data |-> d]

\* createLeadInBitrix(data) from the moment axios.post settles with rep
CreateLeadFinish(v, rep) ==
  CASE rep.kind = "network" -> Rethrow(Undefined, <<MsgNetwork>>)
    [] rep.kind = "dns" -> Rethrow(Undefined, <<MsgNotFound>> \o rep.host)
    [] rep.kind = "timeout" -> Rethrow(Undefined, <<MsgTimeout>>)
    [] rep.kind = "response" ->
         IF ValidateStatus(v, rep.status)
           THEN AfterResolve(v, rep.data)
           ELSE Rethrow(rep.data, <<MsgStatusCode>> \o NatToChars(rep.status))

-----------------------------------------------------------------------------
(* The server: the handlers up to their first suspension.  The outcome is     *)
(*   [kind |-> "respond", resp, stages, mapped]   the response is sent        *)
(*   [kind |-> "await", post, stages, mapped]     axios.post is in flight     *)

Respond(r, stages) == [kind |-> "respond", resp |-> r, stages |-> stages, mapped |-> FALSE]

\* a handler that would not await createLeadInBitrix: it answers with success
\* as soon as the lead is on its way
AnswerAtOnce(c, stages) ==
  IF c.kind = "throw"
    THEN [kind |-> "respond", resp |-> SendCaught(c.msg), mapped |-> c.mapped,
          stages |-> IF c.mapped THEN stages \o <<"mapped">> ELSE stages]
    ELSE [kind |-> "respond", mapped |-> c.mapped,
          resp |-> SendSuccess(MsgCreated, [leadId |-> Undefined, data |-> Undefined]),
          stages |-> stages \o <<"mapped", "forwarded">>]

\* the handler at createLeadInBitrix's outcome c: it is suspended in the await,
\* or its catch block answers
Awaiting(c, stages) ==
  IF c.kind = "throw"
    THEN [kind |-> "respond", resp |-> SendCaught(c.msg), mapped |-> c.mapped,
          stages |-> IF c.mapped THEN stages \o <<"mapped">> ELSE stages]
    ELSE [kind |-> "await", post |-> c.post, mapped |-> c.mapped,
          stages |-> stages \o <<"mapped", "forwarded">>]

\* `await createLeadInBitrix(data)` inside the try block of a handler
Relay(v, rev, e, data, stages) == Awaiting(CreateLeadStart(v, rev, e, data), stages)

\* the try block of app.post('/webhook') once JSON.parse has returned data
WebhookData(v, rev, e, data) ==
  \* partA and partB log data.contact before they look at data
  IF v # "server" /\ data = Null
    THEN Respond(SendCaught(<<MsgTypeError>>), <<"received">>)
  ELSE IF ~Truthy(data) \/ NumKeys(data) = 0
    THEN Respond(SendFailure(400, <<MsgNoData>>), <<"received">>)
  ELSE IF ~Truthy(Get(data, "contact")) \/ ~Truthy(Get(data, "call"))
    THEN Respond(SendFailure(400, <<MsgMissingFields>>), <<"received">>)
  ELSE Relay(v, rev, e, data, <<"received", "validated">>)

\* the try block of app.post('/webhook')
WebhookBody(v, rev, e, payload) ==
  IF ~JSONparse(payload).ok
    THEN Respond(SendCaught(<<MsgSyntaxError>>), <<"received">>)
    ELSE WebhookData(v, rev, e, JSONparse(payload).val)

\* app.post('/webhook')
WebhookHandler(v, rev, e, signature, payload) ==
  IF v # "partA" /\ ~Truthy(signature)
    THEN Respond(SendText(401, MsgNoSignature), <<"received">>)
  ELSE IF v # "partA" /\ ~Truthy(e.WEBHOOK_SECRET)
    THEN Respond(SendText(500, MsgNoSecret), <<"received">>)
  ELSE IF Falsy(payload)
    THEN Respond(SendText(400, MsgEmptyBody), <<"received">>)
  ELSE WebhookBody(v, rev, e, payload)

\* a test endpoint that would not validate contact and call
TestLeadUnvalidated(v, rev, e, data) ==
  IF ~Truthy(data) \/ data.t \notin {"obj", "arr"}
    THEN Respond(SendFailure(400, <<MsgNoData>>), <<"received">>)
    ELSE Relay(v, rev, e, data, <<"received", "validated">>)

\* app.post('/test/bitrix/lead'); its body was parsed by express.json()
TestLeadHandler(v, rev, e, data) ==
  IF ~Truthy(data) \/ data.t \notin {"obj", "arr"}
    THEN Respond(SendFailure(400, <<MsgNoData>>), <<"received">>)
  ELSE IF ~Truthy(Get(data, "contact")) \/ ~Truthy(Get(data, "call"))
    THEN Respond(SendFailure(400, <<MsgMissingFields>>), <<"received">>)
  ELSE Relay(v, rev, e, data, <<"received", "validated">>)

\* the end of a handler at createLeadInBitrix's outcome c
Answer(route, c) ==
  IF c.kind = "throw" THEN SendCaught(c.msg)
  ELSE SendSuccess(IF route = "webhook" THEN MsgCreated ELSE MsgTestCreated, c)

\* a handler resumed when axios.post has settled with rep
HandlerResume(v, route, rep) == Answer(route, CreateLeadFinish(v, rep))

-----------------------------------------------------------------------------
(* The environment of the process and what the outside world sends. *)

Variants == {"server", "partA", "partB"}
MappingRevs == {1, 2}

\* the base URLs: b stands for the scheme and host, x for the path that holds
\* the webhook token
Origin == <<"b">>
UrlSlash == <<"b", "x", "/">>
UrlNoSlash == <<"b", "x">>
UrlTwoSlashes == <<"b", "x", "/", "/">>

\* process.env after dotenv: each variable is unset or a non-empty string
Envs ==
  [WEBHOOK_SECRET : {Undefined, Str(Secrets[1])},
   BITRIX_WEBHOOK_URL : {Undefined, Str(UrlSlash), Str(UrlNoSlash), Str(UrlTwoSlashes)}]

\* req.body of /webhook: the raw text; undefined or {} when express.text() read
\* no body
WebhookBodies == {Undefined, Obj(<< >>)} \cup {Text(RawTexts[i]) : i \in 1..Len(RawTexts)}

\* the X-Webhook-Signature headers sent along with a body: none, the HMAC of
\* the body under the first secret, and its HMAC under another key
SignaturesFor(payload) ==
  IF payload.t = "text"
    THEN {Undefined} \cup {Str(HmacHex(Secrets[k], payload)) : k \in 1..Len(Secrets)}
    ELSE {Undefined, Str(<<"0", "0">>)}

\* req.body of /test/bitrix/lead, as express.json() leaves it
TestBodies == {Undefined, DocEmpty, DocNoCall, DocContactZero, DocNumPhone, DocFull}

ErrorCode == <<"E", "R", "R", "O", "R">>
BadField == <<"b", "a", "d", " ", "f", "i", "e", "l", "d">>

\* {"result":7}
DataOk == Obj(<<P("result", Num(7))>>)
\* {"error":"ERROR","error_description":"bad field"}
DataErr == Obj(<<P("error", Str(ErrorCode)), P("error_description", Str(BadField))>>)
\* {}
DataEmpty == Obj(<< >>)

UpstreamStatuses == {200, 500}
UpstreamData == {DataOk, DataErr, DataEmpty, Null}

\* the ways axios.post can settle: a response, a transport error with a fixed
\* message, one whose message names the host of the URL, and a timeout; only
\* partA passes a timeout to axios
Replies(v) ==
  [kind : {"response"}, status : UpstreamStatuses, data : UpstreamData]
  \cup {[kind |-> "network"], [kind |-> "dns", host |-> Origin]}
  \cup (IF v = "partA" THEN {[kind |-> "timeout"]} ELSE {})

NoInput == [route |-> "none"]
NoReply == [kind |-> "none"]

-----------------------------------------------------------------------------
(* The state machine. *)

Init ==
  /\ variant \in Variants
  /\ mappingRev \in MappingRevs
  /\ env \in Envs
  /\ pc = [r \in Reqs |-> "idle"]
  /\ input = [r \in Reqs |-> NoInput]
  /\ mapCalls = [r \in Reqs |-> 0]
  /\ upstream = [r \in Reqs |-> << >>]
  /\ reply = [r \in Reqs |-> NoReply]
  /\ resp = [r \in Reqs |-> << >>]
  /\ trace = [r \in Reqs |-> << >>]
  /\ engDoc = Null
  /\ engTable = << >>
  /\ engOut = << >>

\* the synchronous run of a handler on request r, with outcome out
Handle(r, in, out) ==
  /\ input' = [input EXCEPT ![r] = in]
  /\ mapCalls' = [mapCalls EXCEPT ![r] = @ + (IF out.mapped THEN 1 ELSE 0)]
  /\ IF out.kind = "await"
       THEN /\ pc' = [pc EXCEPT ![r] = "awaiting"]
            /\ upstream' = [upstream EXCEPT ![r] = Append(@, out.post)]
            /\ resp' = resp
            /\ trace' = [trace EXCEPT ![r] = out.stages]
       ELSE /\ pc' = [pc EXCEPT ![r] = "responded"]
            /\ upstream' = upstream
            /\ resp' = [resp EXCEPT ![r] = Append(@, out.resp)]
            /\ trace' = [trace EXCEPT ![r] = out.stages \o <<"responded">>]
  /\ UNCHANGED <<variant, mappingRev, env, reply, engVars>>

\* POST /webhook arrives and its handler runs to its first suspension
Webhook(r) ==
  /\ pc[r] = "idle"
  /\ \E payload \in WebhookBodies :
       \E signature \in SignaturesFor(payload) :
         Handle(r, [route |-> "webhook", signature |-> signature, body |-> payload],
                WebhookHandler(variant, mappingRev, env, signature, payload))

\* POST /test/bitrix/lead arrives and its handler runs to its first suspension
TestLead(r) ==
  /\ pc[r] = "idle"
  /\ \E data \in TestBodies :
       Handle(r, [route |-> "test", signature |-> Undefined, body |-> data],
              TestLeadHandler(variant, mappingRev, env, data))

\* a relay that would answer an upstream failure by posting the lead again
SettleRetry(r) ==
  /\ pc[r] = "awaiting"
  /\ Len(upstream[r]) < 3
  /\ \E rep \in Replies(variant) :
       /\ reply' = [reply EXCEPT ![r] = rep]
       /\ IF HandlerResume(variant, input[r].route, rep).status = 200
            THEN /\ resp' = [resp EXCEPT ![r] =
                               Append(@, HandlerResume(variant, input[r].route, rep))]
                 /\ pc' = [pc EXCEPT ![r] = "responded"]
                 /\ trace' = [trace EXCEPT ![r] = @ \o <<"responded">>]
                 /\ upstream' = upstream
            ELSE /\ upstream' = [upstream EXCEPT ![r] = Append(@, @[1])]
                 /\ UNCHANGED <<resp, pc, trace>>
  /\ UNCHANGED <<variant, mappingRev, env, input, mapCalls, engVars>>

\* axios.post settles and the handler runs to its end
Settle(r) ==
  /\ pc[r] = "awaiting"
  /\ \E rep \in Replies(variant) :
       /\ reply' = [reply EXCEPT ![r] = rep]
       /\ resp' = [resp EXCEPT ![r] = Append(@, HandlerResume(variant, input[r].route, rep))]
  /\ pc' = [pc EXCEPT ![r] = "responded"]
  /\ trace' = [trace EXCEPT ![r] = @ \o <<"responded">>]
  /\ UNCHANGED <<variant, mappingRev, env, input, mapCalls, upstream, engVars>>

Next == \E r \in Reqs : Webhook(r) \/ TestLead(r) \/ Settle(r)

Spec == Init /\ [][Next]_vars

-----------------------------------------------------------------------------
(* The mapping module called on its own: applyMapping and getValueByPath are  *)
(* exported (mapping.js lines 245-251) and take any document and any table.   *)

\* number of entries of a mapping table
MaxFields == 2

\* number of times applyMapping is called on the same document and table
MaxApplies == 2

\* {"v": x, "contact": {"phone": "+7 9"}, "call": {}}
DocV(x) ==
  Obj(<<P("v", x), P("contact", Obj(<<P("phone", S(Phone79))>>)), P("call", Obj(<< >>))>>)

\* the values a document holds under v
DocValues ==
  {Num(0), Bool(FALSE), Str(<< >>), Arr(<< >>), Null, Str(<<"x", " ">>), Arr(<<Num(1)>>),
   Obj(<< >>)}

\* {"contact":{"phone":"+7 900 123-45-67"},"call":{"agreements":{"client_name":" Ann "}}}
DocAnn ==
  Obj(<<P("contact",
          Obj(<<P("phone", S(<<"+", "7", " ", "9", "0", "0", " ", "1", "2", "3", "-",
                               "4", "5", "-", "6", "7">>))>>)),
        P("call", Obj(<<P("agreements",
                          Obj(<<P("client_name", S(<<" ", "A", "n", "n", " ">>))>>))>>))>>)

\* {"contact":{"phone":"+-"},"call":{"agreements":{"client_name":"  "}}}: a name
\* of spaces only and a phone without a digit
DocBlank ==
  Obj(<<P("contact", Obj(<<P("phone", S(<<"+", "-">>))>>)),
        P("call", Obj(<<P("agreements", Obj(<<P("client_name", S(<<" ", " ">>))>>))>>))>>)

\* the documents the module is called on
EngDocs ==
  {Null, DocEmpty, DocNoCall, DocContactZero, DocNumPhone, DocFull, DocAnn, DocBlank}
  \cup {DocV(x) : x \in DocValues}

\* the values of static entries
StaticValues ==
  {Num(0), Bool(FALSE), Str(<< >>), Arr(<< >>), Null, Undefined, Str(<<"x">>)}

\* the entries mapping tables are made of: those of leadMapping, static entries
\* of every kind of value (one with a transform), a "multiple" entry without a
\* transform, and dotted paths with and without a transform
FieldPool ==
  {leadMapping(1)[i] : i \in 1..4} \cup {leadMapping(2)[2]}
  \cup {Field("S", SrcStatic, x, "none") : x \in StaticValues}
  \cup {Field("T", SrcStatic, Str(<<"x">>), "NAME"),
        Field("M", SrcMultiple, Undefined, "none"),
        Field("V", <<"v">>, Undefined, "none"),
        Field("W", <<"v">>, Undefined, "NAME")}

\* a mapping table is an object: its keys are distinct
IsTable(t) == \A i, j \in 1..Len(t) : t[i].field = t[j].field => i = j

Tables ==
  {t \in UNION {[1..n -> FieldPool] : n \in 0..MaxFields} : IsTable(t)}

\* the paths getValueByPath is called with
PathPool ==
  {<< >>, SrcStatic, SrcMultiple, <<"v">>, <<"v", "x">>, <<"contact", "phone">>,
   <<"call", "agreements", "client_name">>, <<"contact", "phone", "length">>}

EngineInit ==
  /\ variant = "server"
  /\ mappingRev = 1
  /\ env = [WEBHOOK_SECRET |-> Undefined, BITRIX_WEBHOOK_URL |-> Undefined]
  /\ pc = [r \in Reqs |-> "idle"]
  /\ input = [r \in Reqs |-> NoInput]
  /\ mapCalls = [r \in Reqs |-> 0]
  /\ upstream = [r \in Reqs |-> << >>]
  /\ reply = [r \in Reqs |-> NoReply]
  /\ resp = [r \in Reqs |-> << >>]
  /\ trace = [r \in Reqs |-> << >>]
  /\ engDoc \in EngDocs
  /\ engTable \in Tables
  /\ engOut = << >>

\* the calls made so far are all calls of applyMapping
OnlyApplies == \A i \in 1..Len(engOut) : engOut[i].fn = "applyMapping"

\* a mapping engine whose transforms would consume the document they read
ApplyConsuming ==
  /\ Len(engOut) < MaxApplies
  /\ OnlyApplies
  /\ engOut' = Append(engOut, [fn |-> "applyMapping",
                               ret |-> applyMapping(engDoc, engTable)])
  /\ engDoc' = DocEmpty
  /\ UNCHANGED engTable
  /\ UNCHANGED <<variant, mappingRev, env, pc, input, mapCalls, upstream, reply, resp, trace>>

\* applyMapping(engDoc, engTable) is called; neither argument is written to
Apply ==
  /\ Len(engOut) < MaxApplies
  /\ OnlyApplies
  /\ engOut' = Append(engOut, [fn |-> "applyMapping",
                               ret |-> applyMapping(engDoc, engTable)])
  /\ UNCHANGED <<engDoc, engTable>>
  /\ UNCHANGED <<variant, mappingRev, env, pc, input, mapCalls, upstream, reply, resp, trace>>

\* getValueByPath(engDoc, path) is called
Resolve ==
  /\ engOut = << >>
  /\ \E path \in PathPool :
       engOut' = <<[fn |-> "getValueByPath", path |-> path,
                    ret |-> getValueByPath(engDoc, path)]>>
  /\ UNCHANGED <<engDoc, engTable>>
  /\ UNCHANGED <<variant, mappingRev, env, pc, input, mapCalls, upstream, reply, resp, trace>>

EngineNext == Apply \/ Resolve

EngineSpec == EngineInit /\ [][EngineNext]_vars

-----------------------------------------------------------------------------
(* Duplicate deliveries: the same valid webhook arrives several times at one  *)
(* process and the copies are served concurrently.                            *)

\* number of deliveries of the webhook
MaxCopies == 2

Copies == 1..MaxCopies

\* the bodies that are delivered: valid webhooks
DupBodies == {Text(TextFull), Text(TextNumPhone)}

DupInit ==
  /\ variant \in Variants
  /\ mappingRev \in MappingRevs
  /\ env = [WEBHOOK_SECRET |-> Str(Secrets[1]), BITRIX_WEBHOOK_URL |-> Str(UrlSlash)]
  /\ pc = [r \in Copies |-> "idle"]
  /\ input = [r \in Copies |-> NoInput]
  /\ mapCalls = [r \in Copies |-> 0]
  /\ upstream = [r \in Copies |-> << >>]
  /\ reply = [r \in Copies |-> NoReply]
  /\ resp = [r \in Copies |-> << >>]
  /\ trace = [r \in Copies |-> << >>]
  /\ engDoc = Null
  /\ engTable = << >>
  /\ engOut = << >>

\* the body of the signed webhook delivered as request r: the body of the
\* deliveries so far, or any body if r is the first
BodiesFor(r) ==
  IF \E q \in Copies : pc[q] # "idle"
    THEN {input[q].body : q \in {c \in Copies : pc[c] # "idle"}}
    ELSE DupBodies

\* a relay that would drop a delivery whose body it is already serving or has
\* served: it answers the copy without creating a lead
DeliverDeduplicated(r) ==
  /\ pc[r] = "idle"
  /\ \E payload \in BodiesFor(r) :
       IF \E q \in Copies : pc[q] # "idle" /\ input[q].body = payload
         THEN Handle(r, [route |-> "webhook", signature |-> Str(HmacHex(Secrets[1], payload)),
                         body |-> payload],
                     Respond(SendJson(200, Obj(<<P("success", Bool(TRUE))>>)), <<"received">>))
         ELSE Handle(r, [route |-> "webhook", signature |-> Str(HmacHex(Secrets[1], payload)),
                         body |-> payload],
                     WebhookHandler(variant, mappingRev, env,
                                    Str(HmacHex(Secrets[1], payload)), payload))

\* a delivery of the webhook arrives as request r, signed, and its handler runs
\* to its first suspension
Deliver(r) ==
  /\ pc[r] = "idle"
  /\ \E payload \in BodiesFor(r) :
       Handle(r, [route |-> "webhook", signature |-> Str(HmacHex(Secrets[1], payload)),
                  body |-> payload],
              WebhookHandler(variant, mappingRev, env,
                             Str(HmacHex(Secrets[1], payload)), payload))

DupNext == \E r \in Copies : Deliver(r) \/ Settle(r)

DupSpec == DupInit /\ [][DupNext]_vars

-----------------------------------------------------------------------------
(* The server with an upstream that may never answer.  axios.post settles     *)
(* when the upstream answers, when the transport fails, or when the timeout   *)
(* passed to axios expires; server.js (lines 88-96) and partB pass none, so   *)
(* their call stays pending as long as the upstream is silent.                *)

\* the upstream holds the connection of request r and will never answer
Silent == [kind |-> "silent"]

\* the upstream answers request r, or the transport fails
UpstreamSettles(r) ==
  /\ reply[r] = NoReply
  /\ Settle(r)
  /\ reply'[r].kind # "timeout"

\* the upstream goes silent on request r
Silence(r) ==
  /\ pc[r] = "awaiting"
  /\ reply[r] = NoReply
  /\ reply' = [reply EXCEPT ![r] = Silent]
  /\ UNCHANGED <<variant, mappingRev, env, pc, input, mapCalls, upstream, resp, trace, engVars>>

\* the timeout passed to axios expires on the silent upstream: axios.post
\* rejects and the handler runs to its end
Expire(r) ==
  /\ [kind |-> "timeout"] \in Replies(variant)
  /\ pc[r] = "awaiting"
  /\ reply[r] = Silent
  /\ reply' = [reply EXCEPT ![r] = [kind |-> "timeout"]]
  /\ resp' = [resp EXCEPT ![r] =
                Append(@, HandlerResume(variant, input[r].route, [kind |-> "timeout"]))]
  /\ pc' = [pc EXCEPT ![r] = "responded"]
  /\ trace' = [trace EXCEPT ![r] = @ \o <<"responded">>]
  /\ UNCHANGED <<variant, mappingRev, env, input, mapCalls, upstream, engVars>>

LiveNext ==
  \E r \in Reqs : Webhook(r) \/ TestLead(r) \/ UpstreamSettles(r) \/ Silence(r) \/ Expire(r)

\* a pending upstream call is settled or the upstream goes silent, and a
\* timer that was set fires
LiveSpec ==
  /\ Init
  /\ [][LiveNext]_vars
  /\ \A r \in Reqs : WF_vars(UpstreamSettles(r) \/ Silence(r)) /\ WF_vars(Expire(r))

-----------------------------------------------------------------------------
(* The vocabulary of the properties. *)

\* request r has been taken up by its handler
Arrived(r) == pc[r] # "idle"

\* request r has been answered
Responded(r) == pc[r] = "responded"

\* request r was answered with this status code
RespondedWith(r, code) == Responded(r) /\ resp[r][1].status = code

\* neither the mapping engine nor the upstream endpoint was used for request r
Untouched(r) == mapCalls[r] = 0 /\ upstream[r] = << >>

OnWebhook(r) == Arrived(r) /\ input[r].route = "webhook"

SecretConfigured == Truthy(env.WEBHOOK_SECRET)

\* the header of request r is the hex HMAC of its raw body under the secret
SignatureMatches(r) ==
  /\ input[r].body.t = "text"
  /\ input[r].signature.t = "str"
  /\ verifyWebhookSignature(input[r].body, input[r].signature.v,
                            env.WEBHOOK_SECRET.v) = "true"

\* request r was turned away by the signature or the secret check
AuthRejected(r) ==
  /\ Responded(r)
  /\ resp[r][1].kind = "text"
  /\ resp[r][1].status \in {401, 500}

\* request r was turned away before its body was parsed
EarlyRejected(r) == Responded(r) /\ resp[r][1].kind = "text"

\* the /webhook body of request r is a JSON text
Parses(r) == input[r].body.t = "text" /\ JSONparse(input[r].body).ok

\* the document a handler validates: the parsed raw body, or req.body
ParsedBody(r) ==
  IF input[r].route = "webhook" THEN JSONparse(input[r].body).val ELSE input[r].body

HasParsedBody(r) == input[r].route = "test" \/ Parses(r)

\* the document has no truthy contact or no truthy call
LacksFields(d) ==
  \/ d.t \in {"null", "undefined"}
  \/ ~Truthy(Get(d, "contact"))
  \/ ~Truthy(Get(d, "call"))

\* the response says success: true
IsSuccess(x) == x.kind = "json" /\ Get(x.body, "success") = Bool(TRUE)

\* the response is the envelope { success: false, error: <message> }
IsFailureEnvelope(x) ==
  /\ x.kind = "json"
  /\ NumKeys(x.body) = 2
  /\ Get(x.body, "success") = Bool(FALSE)
  /\ Get(x.body, "error").t = "str"

\* the sequence sub occurs in s as a run of consecutive elements
Contains(s, sub) ==
  \E i \in 1..(Len(s) + 1 - Len(sub)) : SubSeq(s, i, i + Len(sub) - 1) = sub

\* the upstream answered request r with an HTTP response
Answered(r) == reply[r].kind = "response"

Is2xx(status) == status >= 200 /\ status < 300

-----------------------------------------------------------------------------
(* The properties. *)

\* C1: on /webhook with a secret configured, a request whose signature header is
\* the hex HMAC of its raw body under the secret is not turned away with 401,
\* and every other request is answered 401 with no mapping and no upstream call.
C1_SignatureDecides ==
  \A r \in Reqs :
    OnWebhook(r) /\ SecretConfigured =>
      IF SignatureMatches(r)
        THEN ~RespondedWith(r, 401)
        ELSE RespondedWith(r, 401) /\ Untouched(r)

\* C2: a request that got past the signature and body-presence checks and whose
\* parsed body has no truthy contact or no truthy call is answered 400, with the
\* mapping engine never invoked and no upstream call, on both routes.
C2_MissingFieldsRejected ==
  \A r \in Reqs :
    Arrived(r) /\ HasParsedBody(r) /\ ~EarlyRejected(r) /\ LacksFields(ParsedBody(r)) =>
      RespondedWith(r, 400) /\ Untouched(r)

\* C3: on /webhook with a secret configured, a request without the signature
\* header is answered 401, whatever its body, with no mapping and no upstream call.
C3_MissingSignatureRejected ==
  \A r \in Reqs :
    OnWebhook(r) /\ SecretConfigured /\ input[r].signature = Undefined =>
      RespondedWith(r, 401) /\ Untouched(r)

\* C4: with no secret configured (and the upstream URL set), a /webhook request
\* whose body is a JSON document with contact and call is mapped and posted
\* upstream, whether or not it carries a signature header.
C4_NoSecretSkipsCheck ==
  \A r \in Reqs :
    /\ OnWebhook(r) /\ ~SecretConfigured /\ Truthy(env.BITRIX_WEBHOOK_URL)
    /\ Parses(r) /\ ~LacksFields(ParsedBody(r))
    => mapCalls[r] = 1 /\ Len(upstream[r]) = 1

\* C5: a /webhook request that got past the signature check and whose raw body
\* is a non-empty text that is no JSON is answered 400, with no mapping and no
\* upstream call.
C5_UnparseableRejected ==
  \A r \in Reqs :
    /\ OnWebhook(r) /\ ~AuthRejected(r)
    /\ input[r].body.t = "text" /\ input[r].body.v # "" /\ ~Parses(r)
    => RespondedWith(r, 400) /\ Untouched(r)

\* C6: when the upstream answers 2xx with a body that carries an error field,
\* the response is 500, success: false, with a message that contains the
\* upstream error_description, and it is not success: true.
C6_UpstreamErrorFieldFails ==
  \A r \in Reqs :
    /\ Answered(r) /\ Is2xx(reply[r].status)
    /\ reply[r].data.t = "obj" /\ Truthy(Get(reply[r].data, "error"))
    => /\ RespondedWith(r, 500)
       /\ IsFailureEnvelope(resp[r][1])
       /\ Contains(Get(resp[r][1].body, "error").v,
                   Get(reply[r].data, "error_description").v)

\* C7: when the upstream answers with a status that is not 2xx, whatever the
\* body, the response is 500 with success: false, never success: true.
C7_UpstreamNon2xxFails ==
  \A r \in Reqs :
    Answered(r) /\ ~Is2xx(reply[r].status) =>
      /\ RespondedWith(r, 500)
      /\ IsFailureEnvelope(resp[r][1])
      /\ ~IsSuccess(resp[r][1])

\* C8: a request causes at most one upstream POST: whatever way the upstream
\* call ended (success, network failure, timeout, non-2xx, error field), the
\* request has exactly the one POST it started with and one response.
C8_SingleUpstreamPost ==
  \A r \in Reqs :
    /\ Len(upstream[r]) <= 1
    /\ reply[r] # NoReply => Len(upstream[r]) = 1 /\ Responded(r) /\ Len(resp[r]) = 1

\* C8 happens: an upstream call that failed, with a non-2xx status or on the
\* network, has ended its request with a 500 after its single POST.
C8_FailedOnce ==
  \E r \in Reqs :
    /\ Responded(r)
    /\ Len(upstream[r]) = 1
    /\ \/ Answered(r) /\ reply[r].status = 500
       \/ reply[r].kind = "network"
    /\ resp[r][1].status = 500

\* C10: every response that reports a failure (a status of 400 or more), at
\* every stage, has the JSON body { success: false, error: <message> }.
C10_FailureEnvelope ==
  \A r \in Reqs :
    Responded(r) /\ resp[r][1].status >= 400 => IsFailureEnvelope(resp[r][1])

\* C11: a success response (200, success: true) carries as leadId the identifier
\* the upstream returned in result for the request's single upstream call and as
\* data the upstream payload unchanged, and is sent only when the upstream
\* returned an identifier.
C11_SuccessCarriesLeadId ==
  \A r \in Reqs :
    Responded(r) /\ IsSuccess(resp[r][1]) =>
      /\ resp[r][1].status = 200
      /\ Len(upstream[r]) = 1
      /\ Answered(r)
      /\ reply[r].data.t = "obj"
      /\ Truthy(Get(reply[r].data, "result"))
      /\ Get(resp[r][1].body, "leadId") = Get(reply[r].data, "result")
      /\ Get(resp[r][1].body, "data") = reply[r].data

-----------------------------------------------------------------------------
(* The properties of the mapping module. *)

\* the outputs of the calls of applyMapping made so far
ApplyOutputs == {engOut[i].ret : i \in {j \in 1..Len(engOut) : engOut[j].fn = "applyMapping"}}

\* the entries of the table
Entries == {engTable[i] : i \in 1..Len(engTable)}

\* what the entry resolves to on the document
Resolved(config) == ResolveField(config, engDoc)

\* the value is none of null, undefined, '' and []
Kept(value) == value \notin {Null, Undefined, Str(<< >>), Arr(<< >>)}

\* C12: applyMapping puts a field in its output if and only if the field's
\* resolved value is not null, not undefined, not '' and not []; a resolved 0 or
\* false is included, and an included value is exactly the resolved value.
C12_InclusionRule ==
  \A out \in ApplyOutputs :
    \A config \in Entries :
      Resolved(config).ok =>
        /\ HasKey(out, config.field) <=> Kept(Resolved(config).val)
        /\ HasKey(out, config.field) => Get(out, config.field) = Resolved(config).val

\* C12 happens: a table with an entry that resolves to 0 or false, which is in
\* the output unchanged, and an entry that resolves to '' or [], which is not.
C12_ZeroKeptEmptyDropped ==
  \E out \in ApplyOutputs :
    \E c1, c2 \in Entries :
      /\ Resolved(c1).ok /\ Resolved(c1).val \in {Num(0), Bool(FALSE)}
      /\ HasKey(out, c1.field) /\ Get(out, c1.field) = Resolved(c1).val
      /\ Resolved(c2).ok /\ Resolved(c2).val \in {Str(<< >>), Arr(<< >>)}
      /\ ~HasKey(out, c2.field)

\* the table without its i-th entry
Without(t, i) == SubSeq(t, 1, i - 1) \o SubSeq(t, i + 1, Len(t))

\* C13: when resolving an entry throws, applyMapping still returns a record,
\* the entry's field is absent from it, and the record is the one applyMapping
\* returns for the table without that entry.
C13_PartialFailure ==
  \A out \in ApplyOutputs :
    /\ out.t = "obj"
    /\ \A i \in 1..Len(engTable) :
         ~Resolved(engTable[i]).ok =>
           /\ ~HasKey(out, engTable[i].field)
           /\ out = applyMapping(engDoc, Without(engTable, i))

\* C13 happens: the first entry of a table throws and the second one is in the
\* output.
C13_ThrowThenKept ==
  \E out \in ApplyOutputs :
    /\ Len(engTable) = 2
    /\ ~Resolved(engTable[1]).ok
    /\ HasKey(out, engTable[2].field)

\* the calls of getValueByPath made so far
ResolveCalls == {engOut[i] : i \in {j \in 1..Len(engOut) : engOut[j].fn = "getValueByPath"}}

RECURSIVE Follow(_, _)
\* the value of the document reached by following the keys, null as soon as a
\* key is not a key of the value reached so far
Follow(current, keys) ==
  IF keys = << >> THEN current
  ELSE IF HasKey(current, Head(keys)) THEN Follow(Get(current, Head(keys)), Tail(keys))
  ELSE Null

\* C14: getValueByPath returns a value for every document and every dotted path:
\* null for the empty path, "static" and "multiple", and otherwise the value
\* reached by following the segments, null as soon as a segment is missing.
C14_PathResolves ==
  \A c \in ResolveCalls :
    c.ret = IF c.path \in {<< >>, SrcStatic, SrcMultiple}
              THEN Null
              ELSE Follow(engDoc, c.path)

\* the field has the same presence and the same value in both records
SameField(out1, out2, field) ==
  /\ HasKey(out1, field) <=> HasKey(out2, field)
  /\ Get(out1, field) = Get(out2, field)

\* C15: an entry with source "static" gives its literal value whatever the
\* document: the field is in the output exactly when the literal is a value
\* applyMapping keeps, its value is the literal, and the output for any other
\* document has the field with the same presence and value.
C15_StaticIgnoresDocument ==
  \A out \in ApplyOutputs :
    \A config \in Entries :
      config.source = SrcStatic =>
        /\ HasKey(out, config.field) <=> Kept(config.value)
        /\ HasKey(out, config.field) => Get(out, config.field) = config.value
        /\ \A d \in EngDocs : SameField(out, applyMapping(d, engTable), config.field)

\* C15 happens: a static entry, here one that also has a transform, is in the
\* output with its literal value for a document that holds a value of its own.
C15_StaticLiteralKept ==
  \E out \in ApplyOutputs :
    \E config \in Entries :
      /\ config.source = SrcStatic /\ config.transform # "none"
      /\ Get(out, config.field) = config.value
      /\ Truthy(GetOpt(engDoc, "v"))

\* the raw value of a non-static entry: null for "multiple", else what the path
\* resolver returns
RawOf(config) ==
  IF config.source = SrcMultiple THEN Null ELSE getValueByPath(engDoc, config.source)

\* transform(raw, document) when the entry has a transform, else raw
TransformOf(config, raw) ==
  IF config.transform # "none" THEN CallTransform(config.transform, raw, engDoc) ELSE Ret(raw)

StartsWith(s, prefix) == Len(prefix) <= Len(s) /\ SubSeq(s, 1, Len(prefix)) = prefix

EndsWith(s, suffix) ==
  Len(suffix) <= Len(s) /\ SubSeq(s, Len(s) + 1 - Len(suffix), Len(s)) = suffix

\* C18: the URL of every upstream request is the configured base URL followed
\* by crm.lead.add with exactly one slash between them: it begins with the base
\* URL, ends with /crm.lead.add and never contains //crm.lead.add.
C18_OneSeparatingSlash ==
  \A r \in Reqs :
    \A i \in 1..Len(upstream[r]) :
      /\ StartsWith(upstream[r][i].url, env.BITRIX_WEBHOOK_URL.v)
      /\ EndsWith(upstream[r][i].url, <<"/">> \o MethodPath)
      /\ ~Contains(upstream[r][i].url, <<"/", "/">> \o MethodPath)

\* two responses with the same status and the same success, leadId and data,
\* and, if withError, the same error
SameResponse(x, y, withError) ==
  /\ x.status = y.status
  /\ x.kind = y.kind
  /\ \A k \in {"success", "leadId", "data"} : Get(x.body, k) = Get(y.body, k)
  /\ withError => Get(x.body, "error") = Get(y.body, "error")

\* request r went the way w, the run of /webhook on the same document from its
\* validation on: the same steps, the same mapping, the same upstream request
\* and, for the same upstream reply, the same response
Mirrors(r, w, withError) ==
  IF w.kind = "respond"
    THEN /\ Responded(r)
         /\ upstream[r] = << >>
         /\ mapCalls[r] = (IF w.mapped THEN 1 ELSE 0)
         /\ trace[r] = w.stages \o <<"responded">>
         /\ SameResponse(resp[r][1], w.resp, withError)
    ELSE /\ upstream[r] = <<w.post>>
         /\ mapCalls[r] = 1
         /\ trace[r] = w.stages \o (IF Responded(r) THEN <<"responded">> ELSE << >>)
         /\ Responded(r) =>
              SameResponse(resp[r][1], HandlerResume(variant, "webhook", reply[r]),
                           withError)

\* request r is a /test/bitrix/lead request whose body is a JSON object
OnTestWithDocument(r) ==
  Arrived(r) /\ input[r].route = "test" /\ input[r].body.t = "obj"

C20_IndependentDeliveries ==
  \A r \in Copies :
    Arrived(r) =>
      /\ mapCalls[r] = 1
      /\ upstream[r] =
           <<CreateLeadStart(variant, mappingRev, env, JSONparse(input[r].body).val).post>>
      /\ Responded(r) <=> reply[r] # NoReply
      /\ Responded(r) => resp[r] = <<HandlerResume(variant, "webhook", reply[r])>>

\* C20 happens: two deliveries of the same webhook each made their own upstream
\* call with the same record; one was answered with success and the other, whose
\* upstream call failed, with a failure.
C20_DuplicateLead ==
  /\ Arrived(1) /\ Arrived(2)
  /\ input[1].body = input[2].body
  /\ Responded(1) /\ Responded(2)
  /\ Len(upstream[1]) = 1 /\ Len(upstream[2]) = 1
  /\ upstream[1] = upstream[2]
  /\ IsSuccess(resp[1][1])
  /\ ~IsSuccess(resp[2][1])

\* the entries of the table that are the COMMENTS entry of a lead mapping
CommentsEntries == {c \in Entries : c.field = "COMMENTS" /\ c.transform # "none"}

\* the labelled sub-fields of the summary and the value each is rendered from
SubFields(call, contact, agreements) ==
  <<[label |-> <<"Name: ">>, from |-> Get(agreements, "client_name")],
    [label |-> <<"Phone: ">>, from |-> Get(contact, "phone")],
    [label |-> <<"Call duration: ">>, from |-> Get(call, "duration")],
    [label |-> <<"Call started at: ">>, from |-> Get(call, "startedAt")],
    [label |-> <<"Call record: ">>, from |-> Get(call, "recordUrl")],
    [label |-> <<"Agreements: ">>, from |-> Get(agreements, "agreements")],
    [label |-> <<"Agreement time: ">>, from |-> Get(agreements, "agreements_time")],
    [label |-> <<"Possible region: ">>, from |-> Get(contact, "dadataPhoneInfo")],
    [label |-> <<"Tags: ">>, from |-> Get(contact, "tags")],
    [label |-> <<"About the client:", "\n">>, from |-> Get(agreements, "client_facts")],
    [label |-> <<"Contact extra fields: ">>, from |-> Get(contact, "additionalFields")],
    [label |-> <<"Closing message:", "\n">>, from |-> Get(agreements, "smsText")]>>

\* text is a summary of the sub-fields: every label appears, and a sub-field
\* the document lacks is rendered as its label followed by the placeholder
IsSummary(text, subs) ==
  \A i \in 1..Len(subs) :
    /\ Contains(text, subs[i].label)
    /\ subs[i].from \in {Null, Undefined} => Contains(text, subs[i].label \o Dash)

\* the returned value is a summary of the document
ReturnsSummary(ret, doc) ==
  /\ ret.ok
  /\ ret.val.t = "str"
  /\ ret.val.v # << >>
  /\ IsSummary(ret.val.v,
               SubFields(OrElse(Get(doc, "call"), Obj(<< >>)),
                         OrElse(Get(doc, "contact"), Obj(<< >>)),
                         OrElse(GetOpt(Get(doc, "call"), "agreements"), Obj(<< >>))))

\* C21: for every document, the COMMENTS transform of the lead mapping returns
\* a summary in which every sub-field appears, an absent sub-field rendered as
\* the placeholder; it never throws and never returns null or an empty string.
C21_CommentsIsFullSummary ==
  \A c \in CommentsEntries :
    (engDoc.t = "obj" /\ ApplyOutputs # {}) =>
      ReturnsSummary(CallTransform(c.transform, Null, engDoc), engDoc)

\* the NAME and PHONE entries of the lead mapping, the same in both revisions
NameEntry == leadMapping(1)[3]
PhoneField == leadMapping(1)[4]

\* t is s without its leading and trailing spaces
IsTrimOf(t, s) ==
  /\ \E i \in 0..Len(s) : \E j \in i..Len(s) :
       /\ t = SubSeq(s, i + 1, j)
       /\ \A k \in (1..i) \cup ((j + 1)..Len(s)) : IsSpace(s[k])
  /\ t # << >> => ~IsSpace(t[1]) /\ ~IsSpace(t[Len(t)])

\* the one-entry phone list [{VALUE: digits, VALUE_TYPE: 'WORK'}]
WorkPhone(digits) ==
  Arr(<<Obj(<<P("VALUE", Str(digits)), P("VALUE_TYPE", Str(<<"W", "O", "R", "K">>))>>)>>)

\* the output holds field with the value text gives, or lacks it when text is empty
HoldsUnlessEmpty(out, field, text, value) ==
  IF text = << >> THEN ~HasKey(out, field) ELSE Get(out, field) = value

\* C22: with the NAME transform on call.agreements.client_name and the PHONE
\* transform on contact.phone, the document with client_name " Ann " and phone
\* "+7 900 123-45-67" maps to NAME "Ann" and PHONE [{VALUE: "79001234567",
\* VALUE_TYPE: "WORK"}]; for every document whose name and phone are strings,
\* NAME is the trimmed name, omitted when it is empty, and PHONE is one entry
\* holding only the digits, omitted when no digit remains.
C22_NameTrimmedPhoneDigits ==
  \A out \in ApplyOutputs :
    /\ (NameEntry \in Entries /\ RawOf(NameEntry).t = "str") =>
         \E t \in {SubSeq(RawOf(NameEntry).v, i, j) :
                     i \in 1..(Len(RawOf(NameEntry).v) + 1), j \in 0..Len(RawOf(NameEntry).v)} :
           /\ IsTrimOf(t, RawOf(NameEntry).v)
           /\ HoldsUnlessEmpty(out, "NAME", t, Str(t))
    /\ (PhoneField \in Entries /\ RawOf(PhoneField).t = "str") =>
         HoldsUnlessEmpty(out, "PHONE", SelectSeq(RawOf(PhoneField).v, IsDigit),
                          WorkPhone(SelectSeq(RawOf(PhoneField).v, IsDigit)))
    /\ (engDoc = DocAnn /\ NameEntry \in Entries) =>
         Get(out, "NAME") = Str(<<"A", "n", "n">>)
    /\ (engDoc = DocAnn /\ PhoneField \in Entries) =>
         Get(out, "PHONE") =
           WorkPhone(<<"7", "9", "0", "0", "1", "2", "3", "4", "5", "6", "7">>)

\* C22 happens: the example document was mapped with both entries, giving the
\* trimmed name and the digits-only phone.
C22_AnnMapped ==
  /\ engDoc = DocAnn
  /\ engTable = <<NameEntry, PhoneField>>
  /\ \E out \in ApplyOutputs :
       /\ Get(out, "NAME") = Str(<<"A", "n", "n">>)
       /\ HasKey(out, "PHONE")

\* C22 happens: a name of spaces only and a phone without a digit were mapped,
\* and both fields were omitted.
C22_BlankOmitted ==
  /\ engDoc = DocBlank
  /\ engTable = <<NameEntry, PhoneField>>
  /\ \E out \in ApplyOutputs : ~HasKey(out, "NAME") /\ ~HasKey(out, "PHONE")

RECURSIVE Mentions(_, _)
\* the text sub occurs in a string held anywhere in the value x
Mentions(x, sub) ==
  CASE x.t \in {"str", "text"} -> Contains(x.v, sub)
    [] x.t = "obj" -> \E i \in 1..Len(x.v) : Mentions(x.v[i].v, sub)
    [] x.t = "arr" -> \E i \in 1..Len(x.v) : Mentions(x.v[i], sub)
    [] OTHER -> FALSE

\* the configured value is unset or occurs nowhere in the body
Hides(body, configured) == Truthy(configured) => ~Mentions(body, configured.v)

\* request r went as the run with outcome out of its synchronous part goes: the
\* same response at once, or the same upstream call and then the response the
\* upstream reply gives
SameRun(r, out) ==
  IF out.kind = "respond"
    THEN resp[r] = <<out.resp>> /\ upstream[r] = << >>
    ELSE /\ upstream[r] = <<out.post>>
         /\ Responded(r) =>
              resp[r] = <<HandlerResume(variant, input[r].route, reply[r])>>

\* the synchronous part of the handler of request r under the environment e
HandlerUnder(r, e) ==
  IF input[r].route = "webhook"
    THEN WebhookHandler(variant, mappingRev, e, input[r].signature, input[r].body)
    ELSE TestLeadHandler(variant, mappingRev, e, input[r].body)

\* C23: no response body contains the configured webhook secret or the
\* configured CRM base URL, and a run that differs only in the value of the
\* configured (non-empty) secret sends the same responses.
C23_SecretAndUrlStayInside ==
  \A r \in Reqs :
    /\ Responded(r) =>
         /\ Hides(resp[r][1].body, env.WEBHOOK_SECRET)
         /\ Hides(resp[r][1].body, env.BITRIX_WEBHOOK_URL)
    /\ (Arrived(r) /\ SecretConfigured) =>
         \A k \in {j \in 1..Len(Secrets) : Str(Secrets[j]) # env.WEBHOOK_SECRET} :
           SameRun(r, HandlerUnder(r, [env EXCEPT !.WEBHOOK_SECRET = Str(Secrets[k])]))

\* C23 happens: with a secret and a base URL configured, a webhook's upstream
\* call failed in transport and the failure response carries the transport
\* message, which names the host.
C23_TransportFailureAnswered ==
  \E r \in Reqs :
    /\ SecretConfigured
    /\ Truthy(env.BITRIX_WEBHOOK_URL)
    /\ OnWebhook(r)
    /\ Responded(r)
    /\ reply[r].kind = "dns"
    /\ IsFailureEnvelope(resp[r][1])
    /\ Mentions(resp[r][1].body, Origin)

\* the stages of a request, in their order
Stages == <<"received", "validated", "mapped", "forwarded", "responded">>

\* the position of a stage in the order
StageNo(stage) == CHOOSE i \in 1..Len(Stages) : Stages[i] = stage

\* request r went through this stage
Reached(r, stage) == \E i \in 1..Len(trace[r]) : trace[r][i] = stage

\* the stages of the sequence are stages of the order, first Received, each
\* later in the order than the one before
InOrder(t) ==
  /\ t # << >> /\ t[1] = "received"
  /\ \A i \in 1..Len(t) : \E n \in 1..Len(Stages) : Stages[n] = t[i]
  /\ \A i \in 1..(Len(t) - 1) : StageNo(t[i]) < StageNo(t[i + 1])

\* C24: each request moves through the stages in the order Received,
\* Validated, Mapped, Forwarded, Responded: the mapping engine runs only after
\* validation has succeeded, the single upstream call is issued only after
\* mapping has completed, the success response is sent only after the upstream
\* reply has been received, and a request rejected at Received or Validated
\* reaches neither Mapped nor Forwarded.
C24_StagesInOrder ==
  \A r \in Reqs :
    Arrived(r) =>
      /\ InOrder(trace[r])
      /\ Reached(r, "responded") <=> Responded(r)
      /\ Reached(r, "mapped") <=> mapCalls[r] > 0
      /\ Reached(r, "forwarded") <=> upstream[r] # << >>
      /\ Reached(r, "mapped") =>
           /\ Reached(r, "validated")
           /\ HasParsedBody(r)
           /\ ~LacksFields(ParsedBody(r))
      /\ Reached(r, "forwarded") => Reached(r, "mapped") /\ Len(upstream[r]) = 1
      /\ (Responded(r) /\ IsSuccess(resp[r][1])) =>
           Reached(r, "forwarded") /\ reply[r].kind = "response"
      /\ (Responded(r) /\ ~Reached(r, "forwarded")) =>
           ~IsSuccess(resp[r][1]) /\ reply[r] = NoReply
      /\ ~Reached(r, "validated") => Untouched(r)

\* C24 happens: a request went through all five stages and was answered with
\* success after the upstream reply.
C24_AllStages ==
  \E r \in Reqs :
    /\ trace[r] = Stages
    /\ IsSuccess(resp[r][1])
    /\ reply[r].kind = "response"

\* C24 happens: a request was rejected at Validated (no base URL) and reached
\* neither Mapped nor Forwarded.
C24_RejectedAtValidated ==
  \E r \in Reqs : trace[r] = <<"received", "validated", "responded">> /\ Untouched(r)

\* C25: every request to /webhook or /test/bitrix/lead eventually receives
\* exactly one response, never zero and never two, on every path, an upstream
\* that does not answer included.
C25_EventuallyOneResponse ==
  \A r \in Reqs :
    /\ [](Len(resp[r]) <= 1)
    /\ Arrived(r) ~> (Responded(r) /\ Len(resp[r]) = 1)

\* the record posted upstream by the i-th call of request r
PostedFields(r, i) == Get(upstream[r][i].data, "fields")

\* the record holds STATUS_ID with the literal of the table
HasStatus(fields) == Get(fields, "STATUS_ID") = Str(StatusId)

PassedValidation(r) ==
  /\ Arrived(r)
  /\ ~EarlyRejected(r)
  /\ HasParsedBody(r)
  /\ ~LacksFields(ParsedBody(r))

\* C27: when the CRM base URL (BITRIX_WEBHOOK_URL) is not configured, every
\* request that passes validation ends with a 500 failure response, and
\* neither the mapping engine nor the upstream endpoint is invoked for it.
C27_NoUrlFailsBeforeMapping ==
  \A r \in Reqs :
    (PassedValidation(r) /\ ~Truthy(env.BITRIX_WEBHOOK_URL)) =>
      /\ RespondedWith(r, 500)
      /\ IsFailureEnvelope(resp[r][1])
      /\ Untouched(r)
      /\ reply[r] = NoReply

\* C27 happens: without a base URL, a webhook that passed validation was
\* answered 500 with the message about the unset variable, unmapped and
\* unforwarded.
C27_NoUrlWebhookFailed ==
  \E r \in Reqs :
    /\ ~Truthy(env.BITRIX_WEBHOOK_URL)
    /\ OnWebhook(r)
    /\ PassedValidation(r)
    /\ RespondedWith(r, 500)
    /\ Get(resp[r][1].body, "error") = Str(<<MsgNoUrl>>)
    /\ Untouched(r)

=============================================================================
